---- MODULE Spec2Model ----
(***************************************************************************)
(* The whiteboard widget of src/src/block.tsx as a state machine.         *)
(*                                                                         *)
(* The component is a React function component.  Its state lives in four  *)
(* useState hooks; its handlers are closures created by a render, and the *)
(* canvas listeners are (re)attached by a passive effect.  The model      *)
(* keeps these three layers apart:                                        *)
(*   - isDrawing, lastPos, currentColor, brushSize : the state of the     *)
(*     last committed render;                                             *)
(*   - pendIsDrawing, pendLastPos : state updates queued by handlers of   *)
(*     continuous events (mousemove, touchmove, mouseleave), which React  *)
(*     renders in a later task;                                           *)
(*   - hnd : the values captured by the `draw` listener that is attached  *)
(*     to the canvas (the closure of the render whose effect ran last).   *)
(* Updates made in discrete events (mousedown, mouseup, touchstart,       *)
(* touchend, click, change) are rendered, committed and their effects run *)
(* before the handler's task ends, so those actions hold the whole chain. *)
(* Coordinates are exact rationals <<numerator, denominator>>.            *)
(***************************************************************************)
EXTENDS Integers, Sequences, FiniteSets, TLC

(* ---------------------------------------------------------------------- *)
(* Program constants                                                      *)
(* ---------------------------------------------------------------------- *)
colors ==
  << "#000000", "#FF0000", "#00FF00", "#0000FF", "#FFFF00",
     "#FF00FF", "#00FFFF", "#FFA500", "#800080", "#008000",
     "#800000", "#808080", "#FFC0CB", "#A52A2A", "#FFFFFF" >>

Palette == { colors[i] : i \in 1..Len(colors) }

DefaultColor == "#000000"

DefaultBrushSize == 3

DefaultTitle == "Simple Whiteboard"

DefaultWidth == 800

DefaultHeight == 600

SliderMin == 1

SliderMax == 20

BlockId == "685334c2157dfa0de308d307"

CompletionMessage == [type |-> "BLOCK_COMPLETION", blockId |-> BlockId, completed |-> TRUE]

EventTypes ==
  { "mousedown", "mousemove", "mouseup", "mouseleave",
    "touchstart", "touchmove", "touchend" }

(* ---------------------------------------------------------------------- *)
(* Bounds of the model                                                    *)
(* ---------------------------------------------------------------------- *)
\* segments the surface may hold before another stroke is refused
MaxSegs == 2

(* ---------------------------------------------------------------------- *)
(* Rationals, for getPosition                                             *)
(* ---------------------------------------------------------------------- *)
Abs(n) == IF n < 0 THEN -n ELSE n

RECURSIVE Gcd(_, _)
Gcd(a, b) == IF b = 0 THEN a ELSE Gcd(b, a % b)

\* the rational n/d in lowest terms (d > 0)
Frac(n, d) ==
  LET g == Gcd(Abs(n), d) IN
  IF g = 0 THEN <<0, 1>> ELSE <<n \div g, d \div g>>

FracMul(k, f) == Frac(k * f[1], f[2])

Whole(n) == <<n, 1>>

Origin == [x |-> Whole(0), y |-> Whole(0)]

(* ---------------------------------------------------------------------- *)
(* State                                                                  *)
(* ---------------------------------------------------------------------- *)
VARIABLES
  mounted,          \* the component is mounted (canvasRef.current is the canvas)
  ctxAvail,         \* canvas.getContext('2d') yields a context
  embedded,         \* window.parent is another page than window
  props,            \* the props the parent passed ({} = prop not passed)
  width, height,    \* the width and height props of the last committed render
  isDrawing,        \* useState(false)
  currentColor,     \* useState('#000000')
  brushSize,        \* useState(3)
  lastPos,          \* useState({ x: 0, y: 0 })
  pendIsDrawing,    \* queued setIsDrawing update, not rendered yet ({} = none)
  pendLastPos,      \* queued setLastPos update, not rendered yet ({} = none)
  setupDirty,       \* the canvas setup effect of the last commit has not run yet
  notifyDirty,      \* the completion effect of the last commit has not run yet
  listeners,        \* handlers registered on the canvas, per event type
  hnd,              \* what the attached draw listener captured at its render
  canvasW, canvasH, \* canvas.width, canvas.height (the pixel buffer's size)
  surface,          \* the pixel buffer: the segments stroked since it was last blank
  lastEvent,        \* the operation the last step handled
  posted,           \* messages posted by the last step, in order
  defaultPrevented  \* the last step's event had preventDefault() called

vars ==
  << mounted, ctxAvail, embedded, props, width, height, isDrawing, currentColor,
     brushSize, lastPos, pendIsDrawing, pendLastPos, setupDirty, notifyDirty,
     listeners, hnd, canvasW, canvasH, surface, lastEvent, posted,
     defaultPrevented >>

\* The state as one record.  updIsDrawing .. updBrushSize hold the setState calls
\* of the handler being run; they are empty between steps.
Cur ==
  [ mounted |-> mounted, ctxAvail |-> ctxAvail, embedded |-> embedded,
    props |-> props,
    width |-> width, height |-> height,
    isDrawing |-> isDrawing, currentColor |-> currentColor,
    brushSize |-> brushSize, lastPos |-> lastPos,
    pendIsDrawing |-> pendIsDrawing, pendLastPos |-> pendLastPos,
    setupDirty |-> setupDirty, notifyDirty |-> notifyDirty,
    listeners |-> listeners, hnd |-> hnd,
    canvasW |-> canvasW, canvasH |-> canvasH, surface |-> surface,
    lastEvent |-> "none", posted |-> <<>>, defaultPrevented |-> FALSE,
    updIsDrawing |-> {}, updLastPos |-> {}, updColor |-> {}, updBrushSize |-> {} ]

Becomes(s) ==
  /\ mounted' = s.mounted
  /\ ctxAvail' = s.ctxAvail
  /\ embedded' = s.embedded
  /\ props' = s.props
  /\ width' = s.width
  /\ height' = s.height
  /\ isDrawing' = s.isDrawing
  /\ currentColor' = s.currentColor
  /\ brushSize' = s.brushSize
  /\ lastPos' = s.lastPos
  /\ pendIsDrawing' = s.pendIsDrawing
  /\ pendLastPos' = s.pendLastPos
  /\ setupDirty' = s.setupDirty
  /\ notifyDirty' = s.notifyDirty
  /\ listeners' = s.listeners
  /\ hnd' = s.hnd
  /\ canvasW' = s.canvasW
  /\ canvasH' = s.canvasH
  /\ surface' = s.surface
  /\ lastEvent' = s.lastEvent
  /\ posted' = s.posted
  /\ defaultPrevented' = s.defaultPrevented

\* the one element of a set that holds one
The(S) == CHOOSE v \in S : TRUE

(* ---------------------------------------------------------------------- *)
(* Inputs                                                                 *)
(* ---------------------------------------------------------------------- *)
\* <Block /> without props
NoProps == [title |-> {}, width |-> {}, height |-> {}]

\* the props a parent may pass: none, or a title and a half-size canvas
PropsChoices ==
  { NoProps,
    [title |-> {"Notes"}, width |-> {DefaultWidth \div 2}, height |-> {DefaultHeight \div 2}] }

\* the destructuring with the defaults of width and height exchanged
BlockPropsSwapped(p) ==
  [title |-> IF p.title = {} THEN DefaultTitle ELSE The(p.title),
   width |-> IF p.width = {} THEN DefaultHeight ELSE The(p.width),
   height |-> IF p.height = {} THEN DefaultWidth ELSE The(p.height)]

\* the destructuring of the props with its defaults, lines 9-13
BlockProps(p) ==
  [title |-> IF p.title = {} THEN DefaultTitle ELSE The(p.title),
   width |-> IF p.width = {} THEN DefaultWidth ELSE The(p.width),
   height |-> IF p.height = {} THEN DefaultHeight ELSE The(p.height)]

\* canvas.getBoundingClientRect(), line 38: the rendered box of the canvas.  The
\* canvas has no CSS size of its own, so its box follows the buffer's size; the
\* page shows it at half scale, at offset (10, 20).
getBoundingClientRect(s) ==
  [left |-> 10, top |-> 20, width |-> s.canvasW \div 2, height |-> s.canvasH \div 2]

\* client coordinates an event may carry: the box's top-left corner and a
\* point down its diagonal
ClientPoints ==
  { [clientX |-> 10 + i * (DefaultWidth \div 4), clientY |-> 20 + i * (DefaultHeight \div 4)]
    : i \in {0, 1} }

\* MouseEvent.button: 0 is the primary button, 2 the secondary
Buttons == {0, 2}

MouseEvents ==
  { [clientX |-> p.clientX, clientY |-> p.clientY, button |-> b]
    : p \in ClientPoints, b \in Buttons }

\* a TouchEvent with one or two active touch points
TouchEvents ==
  { [touches |-> <<p>>] : p \in ClientPoints }
    \cup { [touches |-> <<pq[1], pq[2]>>] :
             pq \in { pp \in ClientPoints \X ClientPoints : pp[1] # pp[2] } }

\* the palette buttons clicked: the default color and another
ColorChoices == { colors[1], colors[2] }

\* the value strings the range input produces, as digit sequences
RECURSIVE Digits(_)
Digits(n) == IF n < 10 THEN <<n>> ELSE Append(Digits(n \div 10), n % 10)

\* the slider's two ends, lines 217-218
SliderChoices == { Digits(n) : n \in {SliderMin, SliderMax} }

\* parseInt misused on the first character only
RECURSIVE parseIntFirstDigit(_)
parseIntFirstDigit(str) == IF Len(str) = 0 THEN 0 ELSE str[1]

\* parseInt(e.target.value), line 220
RECURSIVE parseInt(_)
parseInt(str) ==
  IF Len(str) = 0 THEN 0
  ELSE 10 * parseInt(SubSeq(str, 1, Len(str) - 1)) + str[Len(str)]

(* ---------------------------------------------------------------------- *)
(* The component's functions                                              *)
(* ---------------------------------------------------------------------- *)
\* getContext, lines 28-31: canvasRef.current?.getContext('2d')
getContext(s) == s.mounted /\ s.ctxAvail

\* getPosition with one scale factor used for both axes
getPositionInOneScale(rect, canvasWidth, canvasHeight, e) ==
  LET scaleX == Frac(canvasWidth, rect.width)
  IN IF "touches" \in DOMAIN e
     THEN [x |-> FracMul(e.touches[1].clientX - rect.left, scaleX),
           y |-> FracMul(e.touches[1].clientY - rect.top, scaleX)]
     ELSE [x |-> FracMul(e.clientX - rect.left, scaleX),
           y |-> FracMul(e.clientY - rect.top, scaleX)]

\* getPosition, lines 39-52, for a canvas of the given buffer size rendered in
\* the box rect: client coordinates relative to the box, scaled by buffer size
\* / rendered size on each axis; the first touch of a TouchEvent.
getPositionIn(rect, canvasWidth, canvasHeight, e) ==
  LET scaleX == Frac(canvasWidth, rect.width)
      scaleY == Frac(canvasHeight, rect.height)
  IN IF "touches" \in DOMAIN e
     THEN [x |-> FracMul(e.touches[1].clientX - rect.left, scaleX),
           y |-> FracMul(e.touches[1].clientY - rect.top, scaleY)]
     ELSE [x |-> FracMul(e.clientX - rect.left, scaleX),
           y |-> FracMul(e.clientY - rect.top, scaleY)]

\* getPosition, lines 34-53: { x: 0, y: 0 } without a canvas, else the position
\* in the canvas's buffer and its rendered box
getPosition(s, e) ==
  IF ~s.mounted THEN Origin
  ELSE getPositionIn(getBoundingClientRect(s), s.canvasW, s.canvasH, e)

preventDefault(s) == [s EXCEPT !.defaultPrevented = TRUE]

\* the setState calls of a handler, kept until the handler returns
setIsDrawing(s, v) == [s EXCEPT !.updIsDrawing = {v}]

setLastPos(s, p) == [s EXCEPT !.updLastPos = {p}]

setCurrentColor(s, c) == [s EXCEPT !.updColor = {c}]

setBrushSize(s, n) == [s EXCEPT !.updBrushSize = {n}]

\* startDrawing, lines 56-61
startDrawing(s, e) ==
  LET s1 == preventDefault(s)
      pos == getPosition(s1, e)
  IN setLastPos(setIsDrawing(s1, TRUE), pos)

\* lines 73-80: one stroked path from the anchor to the new position
Segment(from, to, color, lineWidth) ==
  [from |-> from, to |-> to, strokeStyle |-> color, lineWidth |-> lineWidth,
   lineCap |-> "round", lineJoin |-> "round"]

\* draw, lines 64-83.  isDrawing, lastPos, currentColor and brushSize are the
\* values the attached listener captured (s.hnd), not the latest state.
draw(s, e) ==
  IF ~s.hnd.isDrawing THEN s
  ELSE
    LET s1 == preventDefault(s) IN
    IF ~getContext(s1) THEN s1
    ELSE
      LET currentPos == getPosition(s1, e)
          seg == Segment(s1.hnd.lastPos, currentPos, s1.hnd.currentColor, s1.hnd.brushSize)
      IN setLastPos([s1 EXCEPT !.surface = Append(@, seg)], currentPos)

\* stopDrawing written as a toggle
stopDrawingToggles(s) == setIsDrawing(s, ~s.isDrawing)

\* stopDrawing, lines 86-88
stopDrawing(s) == setIsDrawing(s, FALSE)

\* clearCanvas that skips the wipe while a stroke is in progress
clearCanvasWhenIdle(s) ==
  IF getContext(s) /\ s.mounted /\ ~s.isDrawing THEN [s EXCEPT !.surface = <<>>] ELSE s

\* clearCanvas that also puts the brush size back to its default
clearCanvasAndReset(s) ==
  IF getContext(s) /\ s.mounted
  THEN setBrushSize([s EXCEPT !.surface = <<>>], DefaultBrushSize)
  ELSE s

\* clearCanvas, lines 91-97
clearCanvas(s) ==
  IF getContext(s) /\ s.mounted THEN [s EXCEPT !.surface = <<>>] ELSE s

(* ---------------------------------------------------------------------- *)
(* Render and effects                                                     *)
(* ---------------------------------------------------------------------- *)
\* what a render's draw callback captures, line 83
DrawClosure(s) ==
  [isDrawing |-> s.isDrawing, lastPos |-> s.lastPos,
   currentColor |-> s.currentColor, brushSize |-> s.brushSize]

\* useCallback deps of draw, line 83: the callback is a new function when
\* isDrawing, lastPos (a new object on every setLastPos), currentColor or
\* brushSize changed since the previous render.
drawChanged(s, nDrawing, posSet, nColor, nSize) ==
  \/ nDrawing # s.isDrawing
  \/ posSet
  \/ nColor # s.currentColor
  \/ nSize # s.brushSize

\* deps of the canvas setup effect, line 145 (startDrawing and stopDrawing
\* never change: their deps are stable)
setupDepsChanged(s, w, h, drawIsNew) ==
  \/ w # s.width
  \/ h # s.height
  \/ drawIsNew

\* deps of the completion effect, line 153
completionDepsChanged(s, nDrawing) == nDrawing # s.isDrawing

\* One render and commit of Block, lines 9-153, with the given state updates
\* ({} = hook not updated) and props: the new state, and which effects the
\* commit schedules.
Render(s, uDrawing, uPos, uColor, uSize, w, h) ==
  LET nDrawing == IF uDrawing = {} THEN s.isDrawing ELSE The(uDrawing)
      nPos == IF uPos = {} THEN s.lastPos ELSE The(uPos)
      nColor == IF uColor = {} THEN s.currentColor ELSE The(uColor)
      nSize == IF uSize = {} THEN s.brushSize ELSE The(uSize)
      drawIsNew == drawChanged(s, nDrawing, uPos # {}, nColor, nSize)
  IN [s EXCEPT !.isDrawing = nDrawing, !.lastPos = nPos,
               !.currentColor = nColor, !.brushSize = nSize,
               !.width = w, !.height = h,
               !.setupDirty = @ \/ setupDepsChanged(s, w, h, drawIsNew),
               !.notifyDirty = @ \/ completionDepsChanged(s, nDrawing)]

\* a setup effect that returns no cleanup
removeListenersNever(s) == s

\* the setup effect's cleanup, lines 135-144
removeListeners(s) ==
  [s EXCEPT !.listeners = [t \in EventTypes |-> IF @[t] > 0 THEN @[t] - 1 ELSE 0]]

\* the setup effect's body, lines 100-134.  Assigning canvas.width or
\* canvas.height resets the pixel buffer, also when the value is the same.
setupCanvas(s) ==
  IF ~s.mounted THEN s
  ELSE IF ~s.ctxAvail THEN s
  ELSE [s EXCEPT !.canvasW = s.width, !.canvasH = s.height,
                 !.surface = <<>>,
                 !.listeners = [t \in EventTypes |-> @[t] + 1],
                 !.hnd = DrawClosure(s)]

\* window.parent is window itself when the page is not embedded
WindowParent(s) == IF s.embedded THEN "parent" ELSE "window"

\* the completion effect without its isDrawing test
completionEffectUnguarded(s) ==
  [s EXCEPT !.posted = @ \o << [to |-> "window", data |-> CompletionMessage],
                               [to |-> WindowParent(s), data |-> CompletionMessage] >>]

\* the completion effect, lines 148-153
completionEffect(s) ==
  IF s.isDrawing
  THEN [s EXCEPT !.posted = @ \o << [to |-> "window", data |-> CompletionMessage],
                                    [to |-> WindowParent(s), data |-> CompletionMessage] >>]
  ELSE s

\* the effects a commit scheduled: cleanups first, then the bodies in order
flushPassiveEffects(s) ==
  LET s1 == IF s.setupDirty THEN setupCanvas(removeListeners(s)) ELSE s
      s2 == IF s.notifyDirty THEN completionEffect(s1) ELSE s1
  IN [s2 EXCEPT !.setupDirty = FALSE, !.notifyDirty = FALSE]

(* ---------------------------------------------------------------------- *)
(* Scheduling of state updates                                            *)
(* ---------------------------------------------------------------------- *)
NoUpdates(s) ==
  [s EXCEPT !.updIsDrawing = {}, !.updLastPos = {}, !.updColor = {}, !.updBrushSize = {}]

\* A handler that set no state schedules nothing.  Neither does a setState with
\* the value the hook already holds, when no other update is queued on the
\* component; setLastPos never qualifies: every position is a new object.
bailsOut(s) ==
  \/ /\ s.updIsDrawing = {}
     /\ s.updLastPos = {}
     /\ s.updColor = {}
     /\ s.updBrushSize = {}
  \/ /\ s.pendIsDrawing = {}
     /\ s.pendLastPos = {}
     /\ s.updLastPos = {}
     /\ s.updIsDrawing \subseteq {s.isDrawing}
     /\ s.updColor \subseteq {s.currentColor}
     /\ s.updBrushSize \subseteq {s.brushSize}

\* After the handler of a discrete event (mousedown, mouseup, touchstart,
\* touchend, click, change): effects still pending from an earlier commit run,
\* the component renders with the handler's updates, commits, and the effects
\* of that commit run, all before the next event.  Updates queued by continuous
\* events stay queued, except on a hook this handler has set as well.
flushSync(s) ==
  IF bailsOut(s) THEN NoUpdates(s)
  ELSE
    LET s1 == flushPassiveEffects(s)
        s2 == Render(s1, s1.updIsDrawing, s1.updLastPos, s1.updColor, s1.updBrushSize,
                     s1.width, s1.height)
        s3 == [s2 EXCEPT !.pendIsDrawing = IF s.updIsDrawing # {} THEN {} ELSE @,
                         !.pendLastPos = IF s.updLastPos # {} THEN {} ELSE @]
    IN NoUpdates(flushPassiveEffects(s3))

\* After the handler of a continuous event (mousemove, touchmove, mouseleave):
\* the updates are queued and rendered in a later task.
enqueue(s) ==
  IF bailsOut(s) THEN NoUpdates(s)
  ELSE NoUpdates(
    [s EXCEPT !.pendIsDrawing =
                 IF s.updIsDrawing = {} THEN @
                 ELSE IF @ = {} /\ s.updIsDrawing = {s.isDrawing} THEN {}
                 ELSE s.updIsDrawing,
              !.pendLastPos = IF s.updLastPos = {} THEN @ ELSE s.updLastPos])

\* The render task of the queued updates: effects still pending run first, then
\* the component renders and commits; the effects of this commit run later.
renderQueued(s) ==
  LET s1 == flushPassiveEffects(s)
      s2 == Render(s1, s1.pendIsDrawing, s1.pendLastPos, {}, {}, s1.width, s1.height)
  IN [s2 EXCEPT !.pendIsDrawing = {}, !.pendLastPos = {}]

\* A render with new props, lines 9-13 and 145
renderProps(s, p) ==
  Render([flushPassiveEffects(s) EXCEPT !.props = p], {}, {}, {}, {},
         BlockProps(p).width, BlockProps(p).height)

\* Unmounting: pending effects run, then the setup effect's cleanup
unmount(s) ==
  [removeListeners(flushPassiveEffects(s)) EXCEPT !.mounted = FALSE]

During(s, op) == [s EXCEPT !.lastEvent = op]

Attached(type) == mounted /\ listeners[type] > 0

\* a draw that strokes needs room on the bounded surface
RoomToDraw == (hnd.isDrawing /\ ctxAvail) => Len(surface) < MaxSegs

(* ---------------------------------------------------------------------- *)
(* Actions                                                                *)
(* ---------------------------------------------------------------------- *)
Init ==
  /\ mounted = TRUE
  /\ ctxAvail \in BOOLEAN
  /\ embedded \in BOOLEAN
  /\ props \in PropsChoices
  /\ width = BlockProps(props).width
  /\ height = BlockProps(props).height
  /\ isDrawing = FALSE
  /\ currentColor = DefaultColor
  /\ brushSize = DefaultBrushSize
  /\ lastPos = Origin
  /\ pendIsDrawing = {}
  /\ pendLastPos = {}
  /\ setupDirty = TRUE
  /\ notifyDirty = TRUE
  /\ listeners = [t \in EventTypes |-> 0]
  /\ hnd = [isDrawing |-> FALSE, lastPos |-> Origin,
            currentColor |-> DefaultColor, brushSize |-> DefaultBrushSize]
  /\ canvasW = 300   \* a canvas element is 300 x 150 until it is sized
  /\ canvasH = 150
  /\ surface = <<>>
  /\ lastEvent = "none"
  /\ posted = <<>>
  /\ defaultPrevented = FALSE

\* handleMouseDown, line 116
MouseDownOf(e) ==
  /\ Attached("mousedown")
  /\ Becomes(flushSync(startDrawing(During(Cur, "mousedown"), e)))

MouseDown == \E e \in MouseEvents : MouseDownOf(e)

\* handleMouseMove, line 117
MouseMoveOf(e) ==
  /\ Attached("mousemove")
  /\ RoomToDraw
  /\ Becomes(enqueue(draw(During(Cur, "mousemove"), e)))

MouseMove == \E e \in MouseEvents : MouseMoveOf(e)

\* handleMouseUp, line 118
MouseUp ==
  /\ Attached("mouseup")
  /\ Becomes(flushSync(stopDrawing(During(Cur, "mouseup"))))

\* handleMouseLeave, line 119
MouseLeave ==
  /\ Attached("mouseleave")
  /\ Becomes(enqueue(stopDrawing(During(Cur, "mouseleave"))))

\* handleTouchStart, line 122
TouchStartOf(e) ==
  /\ Attached("touchstart")
  /\ Becomes(flushSync(startDrawing(During(Cur, "touchstart"), e)))

TouchStart == \E e \in TouchEvents : TouchStartOf(e)

\* handleTouchMove, line 123
TouchMoveOf(e) ==
  /\ Attached("touchmove")
  /\ RoomToDraw
  /\ Becomes(enqueue(draw(During(Cur, "touchmove"), e)))

TouchMove == \E e \in TouchEvents : TouchMoveOf(e)

\* handleTouchEnd, line 124
TouchEnd ==
  /\ Attached("touchend")
  /\ Becomes(flushSync(stopDrawing(During(Cur, "touchend"))))

\* a palette button's onClick, line 195
SelectColorOf(c) ==
  /\ mounted
  /\ Becomes(flushSync(setCurrentColor(During(Cur, "selectColor"), c)))

SelectColor == \E c \in ColorChoices : SelectColorOf(c)

\* the range input's onChange, line 220
SelectBrushSizeOf(v) ==
  /\ mounted
  /\ Becomes(flushSync(setBrushSize(During(Cur, "selectBrushSize"), parseInt(v))))

SelectBrushSize == \E v \in SliderChoices : SelectBrushSizeOf(v)

\* the Clear button's onClick, line 235
ClearCanvas ==
  /\ mounted
  /\ Becomes(flushSync(clearCanvas(During(Cur, "clear"))))

\* the render task of updates queued by continuous events
RenderQueued ==
  /\ mounted
  /\ pendIsDrawing # {} \/ pendLastPos # {}
  /\ Becomes(renderQueued(During(Cur, "render")))

\* the task that runs the effects of the last commit
FlushEffects ==
  /\ mounted
  /\ setupDirty \/ notifyDirty
  /\ Becomes(flushPassiveEffects(During(Cur, "effects")))

\* the parent passes other props
Reconfigure ==
  /\ mounted
  /\ pendIsDrawing = {} /\ pendLastPos = {}
  /\ \E p \in PropsChoices :
       /\ p # props
       /\ Becomes(renderProps(During(Cur, "resize"), p))

\* the component is torn down
Unmount ==
  /\ mounted
  /\ Becomes(unmount(During(Cur, "unmount")))

Next ==
  \/ MouseDown
  \/ MouseMove
  \/ MouseUp
  \/ MouseLeave
  \/ TouchStart
  \/ TouchMove
  \/ TouchEnd
  \/ SelectColor
  \/ SelectBrushSize
  \/ ClearCanvas
  \/ RenderQueued
  \/ FlushEffects
  \/ Reconfigure
  \/ Unmount

Spec == Init /\ [][Next]_vars

(* ---------------------------------------------------------------------- *)
(* Properties                                                             *)
(* ---------------------------------------------------------------------- *)
IsPrefix(a, b) == Len(a) <= Len(b) /\ SubSeq(b, 1, Len(a)) = a

BeginEvents == {"mousedown", "touchstart"}

MoveEvents == {"mousemove", "touchmove"}

EndEvents == {"mouseup", "mouseleave", "touchend"}

\* C1: a segment, once drawn, stays on the surface as drawn: no later extend,
\* end, color or size selection, nor the re-render and effects they schedule,
\* removes or alters a segment while the buffer keeps its size.
C1_StrokesPersist ==
  [][(/\ lastEvent' \in MoveEvents \cup EndEvents
                          \cup {"selectColor", "selectBrushSize", "render", "effects"}
      /\ canvasW' = canvasW
      /\ canvasH' = canvasH)
       => IsPrefix(surface, surface')]_vars

\* C2: the step that takes the session flag from Idle to Drawing posts the
\* BLOCK_COMPLETION message once to window and once to window.parent, and no
\* other step (a begin while Drawing, an end, anything else) posts anything.
C2_CompletionOncePerActivation ==
  [][IF ~isDrawing /\ isDrawing'
     THEN posted' =
            << [to |-> "window",
                data |-> [type |-> "BLOCK_COMPLETION",
                          blockId |-> "685334c2157dfa0de308d307", completed |-> TRUE]],
               [to |-> IF embedded THEN "parent" ELSE "window",
                data |-> [type |-> "BLOCK_COMPLETION",
                          blockId |-> "685334c2157dfa0de308d307", completed |-> TRUE]] >>
     ELSE posted' = <<>>]_vars

C2_Witness == lastEvent \in BeginEvents /\ isDrawing /\ Len(posted) = 2

\* C3: after Clear the surface holds no segment.
C3_ClearBlanks == lastEvent = "clear" => surface = <<>>

\* Clear has run with a stroke's update still queued, in an active session
C3_Witness == lastEvent = "clear" /\ ctxAvail /\ pendLastPos # {} /\ isDrawing /\ surface = <<>>

\* C4: Clear leaves color, width, session flag and anchor as they were and
\* posts nothing.
C4_ClearFrame ==
  [][lastEvent' = "clear"
       => /\ UNCHANGED <<currentColor, brushSize, isDrawing, lastPos>>
          /\ UNCHANGED <<pendIsDrawing, pendLastPos, hnd>>
          /\ posted' = <<>>]_vars

C4_Witness ==
  /\ lastEvent = "clear"
  /\ isDrawing
  /\ currentColor # DefaultColor
  /\ brushSize # DefaultBrushSize

\* C5: the color is always a palette value and the width an integer in 1..20;
\* clicking palette entry c makes the color c, and slider value N makes the
\* width N.
C5_ToolState ==
  /\ [](currentColor \in Palette /\ brushSize \in 1..20)
  /\ [][/\ lastEvent' = "selectColor"
             => \A c \in ColorChoices : SelectColorOf(c) => currentColor' = c
        /\ lastEvent' = "selectBrushSize"
             => \A n \in {1, 20} : SelectBrushSizeOf(Digits(n)) => brushSize' = n]_vars

C5_Witness == lastEvent = "selectBrushSize" /\ brushSize = 20 /\ currentColor = colors[2]

\* C6: selecting a color or a brush size leaves the surface, the session flag
\* and the anchor as they were.
C6_SelectionFrame ==
  [][lastEvent' \in {"selectColor", "selectBrushSize"}
       => UNCHANGED <<surface, isDrawing, lastPos>>]_vars

\* C7: an end event handled in the Idle state changes nothing and posts
\* nothing.
C7_EndInIdleNoop ==
  [][(lastEvent' \in EndEvents /\ ~isDrawing)
       => /\ UNCHANGED <<isDrawing, lastPos, currentColor, brushSize, surface>>
          /\ posted' = <<>>]_vars

\* C8: a move event handled while the session flag is Idle draws nothing,
\* changes no state and does not call preventDefault.
C8_MoveInIdleNoop ==
  [][(lastEvent' \in MoveEvents /\ ~isDrawing)
       => /\ UNCHANGED <<surface, isDrawing, lastPos, currentColor, brushSize>>
          /\ UNCHANGED <<pendIsDrawing, pendLastPos>>
          /\ ~defaultPrevented']_vars

\* C9: a primary-button pointer-down or a touch-start leaves the session
\* active with the anchor at the event's resolved position; the session flag
\* goes from Idle to Drawing in no other step, and a pointer-down with another
\* button does not take it there.
C9_BeginOnlyByPrimary ==
  [][/\ \A e \in MouseEvents :
          (MouseDownOf(e) /\ e.button = 0)
            => (isDrawing' /\ lastPos' = getPosition(Cur, e))
     /\ \A e \in TouchEvents :
          TouchStartOf(e) => (isDrawing' /\ lastPos' = getPosition(Cur, e))
     /\ (~isDrawing /\ isDrawing') => lastEvent' \in BeginEvents
     /\ \A e \in MouseEvents :
          (MouseDownOf(e) /\ e.button # 0 /\ ~isDrawing) => ~isDrawing']_vars

\* the listeners are attached: the surface and its context were there at setup
Ready == mounted /\ ctxAvail /\ \A t \in EventTypes : listeners[t] > 0

\* C10: the session flag starts Idle; it goes to Drawing only in a begin step
\* and back to Idle only by an end event (at once for pointer-up and touch-end,
\* at the render of the queued update for pointer-leave); every begin leads to
\* Drawing and every end to Idle; and a mounted widget with a surface never
\* loses its listeners, so begin and end events stay possible in every state.
C10_SessionMachine ==
  /\ [](lastEvent = "none" => ~isDrawing)
  /\ []((mounted /\ ctxAvail) => (Ready \/ setupDirty))
  /\ [][/\ (~isDrawing /\ isDrawing') => lastEvent' \in BeginEvents
        /\ (isDrawing /\ ~isDrawing')
             => \/ lastEvent' \in {"mouseup", "touchend"}
                \/ lastEvent' = "render" /\ pendIsDrawing = {FALSE}
        /\ lastEvent' \in BeginEvents => isDrawing'
        /\ lastEvent' \in {"mouseup", "touchend"} => ~isDrawing'
        /\ (lastEvent' = "mouseleave" /\ isDrawing) => pendIsDrawing' = {FALSE}
        /\ (lastEvent' = "render" /\ pendIsDrawing = {FALSE}) => ~isDrawing'
        /\ (lastEvent' = "effects" /\ ctxAvail) => Ready']_vars

\* Idle again after a session in which a segment was drawn
C10_Witness == lastEvent = "mouseup" /\ ~isDrawing /\ pendLastPos # {} /\ Ready

\* the state the handler's step leaves is the state it found: session flag,
\* anchor, queued updates and surface as they were, and nothing posted
SameSession(s, t) ==
  /\ t.isDrawing = s.isDrawing
  /\ t.lastPos = s.lastPos
  /\ t.pendIsDrawing = s.pendIsDrawing
  /\ t.pendLastPos = s.pendLastPos
  /\ t.surface = s.surface
  /\ t.posted = <<>>

C12_OneHandlerPerEvent ==
  \A t \in EventTypes :
    /\ listeners[t] \in {0, 1}
    /\ removeListeners(Cur).listeners[t] = 0
    /\ ~mounted => listeners[t] = 0

\* torn down after the handlers had been replaced during an active session
C12_Witness ==
  /\ ~mounted
  /\ ctxAvail
  /\ hnd.isDrawing
  /\ hnd.currentColor # DefaultColor
  /\ \A t \in EventTypes : listeners[t] = 0

\* how many of the messages in p were delivered to the page context ctx
DeliveredTo(p, ctx) == Cardinality({ i \in 1..Len(p) : p[i].to = ctx })

\* C13: in the step that takes the session flag from Idle to Drawing, a widget
\* that is not embedded delivers BLOCK_COMPLETION to its own page exactly once,
\* and an embedded widget delivers it once to its own page and once to the
\* parent page.
C13_OncePerPageContext ==
  [][(~isDrawing /\ isDrawing')
       => /\ \A i \in 1..Len(posted') : posted'[i].data = CompletionMessage
          /\ DeliveredTo(posted', "window") = 1
          /\ DeliveredTo(posted', "parent") = IF embedded THEN 1 ELSE 0]_vars

\* rendered boxes of several sizes and offsets, none the buffer's own
\* proportions
RenderedBoxes ==
  { [left |-> l, top |-> 20, width |-> w, height |-> h] :
      l \in {0, 10}, w \in {1, 3, 400, 804}, h \in {7, 300} }

C15_Defaults ==
  /\ []((lastEvent = "none" /\ props = NoProps)
          => /\ BlockProps(props).title = "Simple Whiteboard"
             /\ width = 800
             /\ height = 600
             /\ currentColor = "#000000"
             /\ brushSize = 3
             /\ ~isDrawing
             /\ surface = <<>>
             /\ posted = <<>>)
  /\ [][(lastEvent = "none" /\ props = NoProps /\ ctxAvail /\ lastEvent' = "effects")
          => /\ canvasW' = 800
             /\ canvasH' = 600
             /\ currentColor' = "#000000"
             /\ brushSize' = 3
             /\ ~isDrawing'
             /\ surface' = <<>>
             /\ posted' = <<>>]_vars

\* the widget without props, right after its mount effects
C15_Witness ==
  /\ lastEvent = "effects"
  /\ props = NoProps
  /\ Ready
  /\ canvasW = 800
  /\ canvasH = 600
  /\ hnd = [isDrawing |-> FALSE, lastPos |-> Origin,
            currentColor |-> "#000000", brushSize |-> 3]
  /\ lastPos = Origin
  /\ surface = <<>>

\* C16: once the setup effect has run for the current size, no step other
\* than a re-configuration or the teardown runs it again: the attached
\* handlers stay the ones of that run, no setup run is scheduled, the buffer
\* keeps its size, and the surface content changes only by a stroke or by
\* Clear, whatever the step does to session flag, anchor, color or brush size.
C16_SetupOnlyOnSizeChange ==
  [][(/\ mounted
      /\ ~setupDirty
      /\ lastEvent' \notin {"resize", "unmount"})
       => /\ hnd' = hnd
          /\ ~setupDirty'
          /\ canvasW' = canvasW
          /\ canvasH' = canvasH
          /\ lastEvent' \notin MoveEvents \cup {"clear"} => surface' = surface]_vars

\* the anchor the last begin or extend event asked for: the queued setLastPos
\* if one is queued, else the committed one
LatestAnchor == IF pendLastPos # {} THEN The(pendLastPos) ELSE lastPos

\* C17: a move event that strokes a segment strokes it from the position the
\* immediately preceding begin or extend event resolved, whether or not the
\* component has re-rendered in between.
C17_SegmentFromLatestAnchor ==
  [][(lastEvent' \in MoveEvents /\ Len(surface') > Len(surface))
       => surface'[Len(surface')].from = LatestAnchor]_vars

\* the session flag the last begin or end event asked for: the queued
\* setIsDrawing if one is queued, else the committed flag.  It is TRUE exactly
\* when a begin event has been handled and no end event after it.
LatestFlag == IF pendIsDrawing # {} THEN The(pendIsDrawing) ELSE isDrawing

\* C18: a move event strokes a segment exactly when the last begin or end
\* event handled was a begin: none after an end until the next begin, and
\* always after a begin, whether or not the component has re-rendered.
C18_MoveDrawsIffBegun ==
  [][lastEvent' \in MoveEvents
       => (Len(surface') > Len(surface) <=> LatestFlag)]_vars

====
